---------------------------- MODULE Spec2Model ----------------------------
(***************************************************************************)
(* A model of expression_checker.py: the interactive pipeline of main()    *)
(* (language, set, expression, primary variable, other values, sampled     *)
(* analysis, specific-value loop) and its pure helpers                     *)
(* (preprocess_expression, get_divisors, the parity / membership / prime   *)
(* classification).                                                        *)
(*                                                                         *)
(* Text is a sequence of one-character strings.  The character U+00B2      *)
(* (superscript two) is written "sup2"; the five letters of the Arabic     *)
(* done word are written "ar1" .. "ar5".                                   *)
(*                                                                         *)
(* Numbers are exact rationals n/d in lowest terms.  Python's float of the  *)
(* values the model reaches keeps their sign and their integrality, which  *)
(* is all the program reads of a float.                                    *)
(***************************************************************************)
EXTENDS Integers, Sequences, FiniteSets, TLC

VARIABLES
    pc,            \* where main() stands
    lang,          \* chosen language, or "none"
    set_choice,    \* the set text last entered: <<"N">> or <<"N", "*">> once chosen
    val_input,     \* the text the last input() call returned, <<>> if it raised
    msg,           \* the message printed by the last step
    expr,          \* the processed expression text that sympify accepted
    variables,     \* find_variables(expr)
    primary_var,   \* the name of the primary variable
    var_values,    \* fixed values of the other variables
    report,        \* what the last analysis printed
    dv_n,          \* get_divisors: argument
    dv_out,        \* get_divisors: returned list (once pc = "returned")
    pre_in,        \* preprocess_expression: argument
    pre_out,       \* preprocess_expression: returned text (once pc = "returned")
    translations,  \* what load_translations finds of translations.json
    exit_status,   \* the exit status of the process, -1 while it runs
    input_event    \* what the last input() call did: "text", "interrupt", "eof"

vars == <<pc, lang, set_choice, val_input, msg, expr, variables, primary_var,
          var_values, report, dv_n, dv_out, pre_in, pre_out, translations,
          exit_status, input_event>>

idle_vars == <<lang, set_choice, val_input, msg, expr, variables, primary_var,
               var_values, report, translations, exit_status, input_event>>

pipeline_vars == <<pc, lang, set_choice, val_input, msg, expr, variables,
                   primary_var, var_values, report>>

(***************************************************************************)
(* Bounds                                                                  *)
(***************************************************************************)
MaxDivN == 120

MaxPreLen == 3

(***************************************************************************)
(* Characters                                                              *)
(***************************************************************************)
\* the letters of the model's texts, each case in ASCII order
UpperSeq == <<"A", "B", "D", "E", "F", "I", "N", "O", "Y">>

LowerSeq == <<"a", "b", "d", "e", "f", "i", "n", "o", "y">>

UpperLetters == {UpperSeq[i] : i \in 1..Len(UpperSeq)}

LowerLetters == {LowerSeq[i] : i \in 1..Len(LowerSeq)}

Letters == LowerLetters \cup UpperLetters

Digits == {"0", "1", "2", "3", "4", "5", "6", "7", "8", "9"}

DigitValue(c) ==
    CASE c = "0" -> 0 [] c = "1" -> 1 [] c = "2" -> 2 [] c = "3" -> 3
      [] c = "4" -> 4 [] c = "5" -> 5 [] c = "6" -> 6 [] c = "7" -> 7
      [] c = "8" -> 8 [] c = "9" -> 9

\* ord(c) up to an order-preserving renumbering; the other characters of the
\* model are never compared
CharRank(c) ==
    IF c \in UpperLetters THEN CHOOSE i \in 1..Len(UpperSeq) : UpperSeq[i] = c
    ELSE Len(UpperSeq) + (CHOOSE i \in 1..Len(LowerSeq) : LowerSeq[i] = c)

\* str.lower() and str.upper(), character by character
LowerChar(c) ==
    IF c \in UpperLetters
    THEN LowerSeq[CHOOSE i \in 1..Len(UpperSeq) : UpperSeq[i] = c] ELSE c

UpperChar(c) ==
    IF c \in LowerLetters
    THEN UpperSeq[CHOOSE i \in 1..Len(LowerSeq) : LowerSeq[i] = c] ELSE c

Lower(s) == [i \in 1..Len(s) |-> LowerChar(s[i])]

Upper(s) == [i \in 1..Len(s) |-> UpperChar(s[i])]

\* str.strip(): leading and trailing blanks removed
RECURSIVE LStrip(_)
LStrip(s) == IF s # <<>> /\ Head(s) = " " THEN LStrip(Tail(s)) ELSE s

RECURSIVE RStrip(_)
RStrip(s) ==
    IF s # <<>> /\ s[Len(s)] = " " THEN RStrip(SubSeq(s, 1, Len(s) - 1)) ELSE s

Strip(s) == RStrip(LStrip(s))

(***************************************************************************)
(* get_divisors                                                            *)
(***************************************************************************)
\* int(math.sqrt(n)) for n >= 0
IntSqrt(n) == CHOOSE k \in 0..n : k * k <= n /\ (k + 1) * (k + 1) > n

RECURSIVE DivisorsFrom(_, _, _)
DivisorsFrom(n, i, last) ==
    IF i > last THEN <<>>
    ELSE IF n % i = 0
         THEN (IF i # n \div i THEN <<i, n \div i>> ELSE <<i>>)
                  \o DivisorsFrom(n, i + 1, last)
         ELSE DivisorsFrom(n, i + 1, last)

\* the body of the perfect-square test dropped: both members of a pair always
RECURSIVE DivisorsFromNoSquareTest(_, _, _)
DivisorsFromNoSquareTest(n, i, last) ==
    IF i > last THEN <<>>
    ELSE IF n % i = 0
         THEN <<i, n \div i>> \o DivisorsFromNoSquareTest(n, i + 1, last)
         ELSE DivisorsFromNoSquareTest(n, i + 1, last)

get_divisors_no_square_test(n) ==
    IF n <= 0 THEN <<>> ELSE DivisorsFromNoSquareTest(n, 1, IntSqrt(n))

get_divisors(n) ==
    IF n <= 0 THEN <<>> ELSE DivisorsFrom(n, 1, IntSqrt(n))

(***************************************************************************)
(* preprocess_expression                                                   *)
(***************************************************************************)
\* str.replace(old, new) for a one-character old
RECURSIVE Replace(_, _, _)
Replace(s, old, new) ==
    IF s = <<>> THEN <<>>
    ELSE (IF Head(s) = old THEN new ELSE <<Head(s)>>) \o Replace(Tail(s), old, new)

\* re.sub(r'([A])([B])', r'\1*\2', s): leftmost non-overlapping matches,
\* the scan resuming after the second character of a match
RECURSIVE SubPair(_, _, _, _)
SubPair(s, i, A, B) ==
    IF i > Len(s) THEN <<>>
    ELSE IF i < Len(s) /\ s[i] \in A /\ s[i + 1] \in B
         THEN <<s[i], "*", s[i + 1]>> \o SubPair(s, i + 2, A, B)
         ELSE <<s[i]>> \o SubPair(s, i + 1, A, B)

\* the superscript two replaced by *2 instead of **2
preprocess_star2(expression_input) ==
    LET s0 == Replace(expression_input, "sup2", <<"*", "2">>)
        s1 == SubPair(s0, 1, Digits, Letters)
        s2 == SubPair(s1, 1, Letters, Digits)
        s3 == SubPair(s2, 1, Letters, {"("})
        s4 == SubPair(s3, 1, {")"}, Letters)
        s5 == SubPair(s4, 1, Letters, Letters)
    IN  s5

preprocess_expression(expression_input) ==
    LET s0 == Replace(expression_input, "sup2", <<"*", "*", "2">>)
        s1 == SubPair(s0, 1, Digits, Letters)
        s2 == SubPair(s1, 1, Letters, Digits)
        s3 == SubPair(s2, 1, Letters, {"("})
        s4 == SubPair(s3, 1, {")"}, Letters)
        s5 == SubPair(s4, 1, Letters, Letters)
    IN  s5

(***************************************************************************)
(* Numbers.  A value is [k, n, d]: k = "num" is the rational n/d in lowest *)
(* terms with d > 0; k = "zoo" is sympy's complex infinity (a nonzero      *)
(* number divided by zero); k = "nan" is sympy's nan (0/0); k = "sym" is   *)
(* an expression that still holds a symbol.                                *)
(***************************************************************************)
Abs(x) == IF x < 0 THEN -x ELSE x

RECURSIVE Gcd(_, _)
Gcd(a, b) == IF b = 0 THEN a ELSE Gcd(b, a % b)

Num(n, d) ==
    LET g == Gcd(Abs(n), Abs(d))
        sgn == IF d < 0 THEN -1 ELSE 1
    IN  [k |-> "num", n |-> sgn * (n \div g), d |-> sgn * (d \div g)]

IntVal(n) == [k |-> "num", n |-> n, d |-> 1]

Zoo == [k |-> "zoo", n |-> 0, d |-> 1]

NaN == [k |-> "nan", n |-> 0, d |-> 1]

Sym == [k |-> "sym", n |-> 0, d |-> 1]

IsZero(v) == v.k = "num" /\ v.n = 0

\* the kind of a sum, product or quotient one of whose operands is no number
Special(a, b, op) ==
    IF a.k = "sym" \/ b.k = "sym" THEN Sym
    ELSE IF a.k = "nan" \/ b.k = "nan" THEN NaN
    ELSE IF op = "+" THEN (IF a.k = "zoo" /\ b.k = "zoo" THEN NaN ELSE Zoo)
    ELSE IF op = "*" THEN (IF IsZero(a) \/ IsZero(b) THEN NaN ELSE Zoo)
    ELSE \* "/"
         IF a.k = "zoo" /\ b.k = "zoo" THEN NaN
         ELSE IF b.k = "zoo" THEN IntVal(0)
         ELSE Zoo

Add(a, b) ==
    IF a.k = "num" /\ b.k = "num" THEN Num(a.n * b.d + b.n * a.d, a.d * b.d)
    ELSE Special(a, b, "+")

Neg(a) == IF a.k = "num" THEN Num(-a.n, a.d) ELSE a

Mul(a, b) ==
    IF a.k = "num" /\ b.k = "num" THEN Num(a.n * b.n, a.d * b.d)
    ELSE Special(a, b, "*")

Div(a, b) ==
    IF a.k = "num" /\ b.k = "num"
    THEN IF b.n = 0 THEN (IF a.n = 0 THEN NaN ELSE Zoo)
         ELSE Num(a.n * b.d, a.d * b.n)
    ELSE Special(a, b, "/")

RECURSIVE PowNat(_, _)
PowNat(a, e) == IF e = 0 THEN IntVal(1) ELSE Mul(a, PowNat(a, e - 1))

\* a to the power e for an integer exponent (another exponent leaves the rationals:
\* such an expression is no input of the model)
Pow(a, e) ==
    IF a.k = "sym" \/ e.k = "sym" THEN Sym
    ELSE IF a.k # "num" \/ e.k # "num" \/ e.d # 1 THEN NaN
    ELSE IF e.n >= 0 THEN PowNat(a, e.n)
    ELSE Div(IntVal(1), PowNat(a, -e.n))

\* int(x) of a number: truncation toward zero
IntTrunc(v) == IF v.n >= 0 THEN v.n \div v.d ELSE -((-v.n) \div v.d)

\* x == int(x)
IsIntegral(v) == v.k = "num" /\ v.n % v.d = 0

Less(a, b) == a.n * b.d < b.n * a.d

(***************************************************************************)
(* sympify and subs: the processed text is read by Python's grammar        *)
(*     expr   := term   { [+ or -] term }                                  *)
(*     term   := factor { [times or /] factor }                            *)
(*     factor := [+ or -] factor | power                                   *)
(*     power  := atom [ double-star factor ]                               *)
(*     atom   := DIGITS | NAME | open-paren expr close-paren               *)
(* and evaluated under env, a sequence of [var, value] bindings; a name    *)
(* env does not bind stays a symbol.  A parse yields [ok, v, i, fv]: the   *)
(* value, the index after the text read, the names met.  (sympy cancels    *)
(* symbols, as in n - n; such inputs are none of the model's.)             *)
(***************************************************************************)
Fail == [ok |-> FALSE, v |-> NaN, i |-> 0, fv |-> {}]

Peek(s, i) == IF i >= 1 /\ i <= Len(s) THEN s[i] ELSE "eof"

RECURSIVE RunEnd(_, _, _)
RunEnd(s, i, A) == IF i <= Len(s) /\ s[i] \in A THEN RunEnd(s, i + 1, A) ELSE i

RECURSIVE DigitsValue(_, _, _, _)
DigitsValue(s, i, j, acc) ==
    IF i >= j THEN acc ELSE DigitsValue(s, i + 1, j, 10 * acc + DigitValue(s[i]))

Binds(env, name) == \E b \in 1..Len(env) : env[b].var = name

Lookup(env, name) ==
    IF Binds(env, name)
    THEN env[CHOOSE b \in 1..Len(env) : env[b].var = name].value
    ELSE Sym

At(i) == [ok |-> TRUE, v |-> NaN, i |-> i, fv |-> {}]

\* Parse(rule, s, a, env): the rule applied to s under env.  For the rules
\* "expr", "term", "factor", "power" and "atom", a.i is where the text to read
\* starts; for "term_rest" and "expr_rest", a is the parse of the factors
\* (the terms) read so far.
RECURSIVE Parse(_, _, _, _)
Parse(rule, s, a, env) ==
    LET c == Peek(s, a.i) IN
    CASE rule = "atom" ->
           IF c \in Digits
           THEN LET j == RunEnd(s, a.i, Digits)
                IN  [ok |-> TRUE, v |-> IntVal(DigitsValue(s, a.i, j, 0)),
                     i |-> j, fv |-> {}]
           ELSE IF c \in Letters
           THEN LET j == RunEnd(s, a.i, Letters)
                    name == SubSeq(s, a.i, j - 1)
                IN  [ok |-> TRUE, v |-> Lookup(env, name), i |-> j, fv |-> {name}]
           ELSE IF c = "("
           THEN LET r == Parse("expr", s, At(a.i + 1), env)
                IN  IF r.ok /\ Peek(s, r.i) = ")"
                    THEN [r EXCEPT !.i = r.i + 1] ELSE Fail
           ELSE Fail
      [] rule = "power" ->
           LET b == Parse("atom", s, a, env) IN
           IF b.ok /\ Peek(s, b.i) = "*" /\ Peek(s, b.i + 1) = "*"
           THEN LET e == Parse("factor", s, At(b.i + 2), env)
                IN  IF e.ok
                    THEN [ok |-> TRUE, v |-> Pow(b.v, e.v), i |-> e.i,
                          fv |-> b.fv \cup e.fv]
                    ELSE Fail
           ELSE b
      [] rule = "factor" ->
           IF c \in {"-", "+"}
           THEN LET r == Parse("factor", s, At(a.i + 1), env)
                IN  IF ~r.ok THEN Fail
                    ELSE IF c = "-" THEN [r EXCEPT !.v = Neg(r.v)] ELSE r
           ELSE Parse("power", s, a, env)
      [] rule = "term_rest" ->
           IF c \in {"*", "/"}
           THEN LET f == Parse("factor", s, At(a.i + 1), env)
                IN  IF f.ok
                    THEN Parse("term_rest", s,
                             [ok |-> TRUE,
                              v  |-> IF c = "*" THEN Mul(a.v, f.v) ELSE Div(a.v, f.v),
                              i  |-> f.i,
                              fv |-> a.fv \cup f.fv], env)
                    ELSE Fail
           ELSE a
      [] rule = "term" ->
           LET f == Parse("factor", s, a, env)
           IN  IF f.ok THEN Parse("term_rest", s, f, env) ELSE Fail
      [] rule = "expr_rest" ->
           IF c \in {"+", "-"}
           THEN LET t == Parse("term", s, At(a.i + 1), env)
                IN  IF t.ok
                    THEN Parse("expr_rest", s,
                             [ok |-> TRUE,
                              v  |-> IF c = "+" THEN Add(a.v, t.v)
                                     ELSE Add(a.v, Neg(t.v)),
                              i  |-> t.i,
                              fv |-> a.fv \cup t.fv], env)
                    ELSE Fail
           ELSE a
      [] rule = "expr" ->
           LET t == Parse("term", s, a, env)
           IN  IF t.ok THEN Parse("expr_rest", s, t, env) ELSE Fail

\* the whole text must be read
ParseAll(s, env) ==
    LET r == Parse("expr", s, At(1), env)
    IN  IF r.ok /\ r.i = Len(s) + 1 THEN r ELSE Fail

\* sympify(processed_input): does it parse
sympify_ok(s) == ParseAll(s, <<>>).ok

\* expr.free_symbols
free_symbols(s) == ParseAll(s, <<>>).fv

\* expr.subs(env)
subs(s, env) == ParseAll(s, env).v

\* float(e) succeeds: a number or nan; complex infinity and an expression
\* with a symbol left raise TypeError
float_ok(v) == v.k \in {"num", "nan"}

(***************************************************************************)
(* find_variables: the free symbols sorted by name                         *)
(***************************************************************************)
RECURSIVE NameLess(_, _)
NameLess(a, b) ==
    IF a = <<>> THEN b # <<>>
    ELSE IF b = <<>> THEN FALSE
    ELSE IF Head(a) = Head(b) THEN NameLess(Tail(a), Tail(b))
    ELSE CharRank(Head(a)) < CharRank(Head(b))

RECURSIVE SortNames(_)
SortNames(S) ==
    IF S = {} THEN <<>>
    ELSE LET m == CHOOSE x \in S : \A y \in S \ {x} : NameLess(x, y)
         IN  <<m>> \o SortNames(S \ {m})

find_variables(s) == SortNames(free_symbols(s))

(***************************************************************************)
(* float(text) and int(text) of a typed entry: an optional sign, digits,   *)
(* and for float an optional point and digits, or the words inf, infinity  *)
(* and nan in any case.  (Exponents and underscores are none of the        *)
(* model's entries; inf and nan are entries of the other-value prompt      *)
(* only.)                                                                  *)
(***************************************************************************)
RECURSIVE Pow10(_)
Pow10(n) == IF n = 0 THEN 1 ELSE 10 * Pow10(n - 1)

PosInf == [k |-> "inf", n |-> 1, d |-> 1]

NegInf == [k |-> "inf", n |-> -1, d |-> 1]

\* [ok, v]: ok = FALSE is ValueError
python_float(text) ==
    LET s     == Strip(text)
        low   == Lower(s)
        body  == IF Peek(s, 1) \in {"+", "-"} THEN SubSeq(low, 2, Len(low)) ELSE low
        signed == Peek(s, 1) \in {"+", "-"}
        i0    == IF signed THEN 2 ELSE 1
        i1    == RunEnd(s, i0, Digits)
        point == Peek(s, i1) = "."
        j0    == IF point THEN i1 + 1 ELSE i1
        j1    == RunEnd(s, j0, Digits)
        whole == DigitsValue(s, i0, i1, 0)
        frac  == DigitsValue(s, j0, j1, 0)
        mag   == Num(whole * Pow10(j1 - j0) + frac, Pow10(j1 - j0))
    IN  IF j1 = Len(s) + 1 /\ (i1 - i0) + (j1 - j0) >= 1
        THEN [ok |-> TRUE, v |-> IF Peek(s, 1) = "-" THEN Neg(mag) ELSE mag]
        ELSE IF body \in {<<"i", "n", "f">>, <<"i", "n", "f", "i", "n", "i", "t", "y">>}
        THEN [ok |-> TRUE, v |-> IF Peek(s, 1) = "-" THEN NegInf ELSE PosInf]
        ELSE IF body = <<"n", "a", "n">>
        THEN [ok |-> TRUE, v |-> NaN]
        ELSE [ok |-> FALSE, v |-> NaN]

\* [ok, n]: ok = FALSE is ValueError
python_int(text) ==
    LET s     == Strip(text)
        signed == Peek(s, 1) \in {"+", "-"}
        i0    == IF signed THEN 2 ELSE 1
        i1    == RunEnd(s, i0, Digits)
        mag   == DigitsValue(s, i0, i1, 0)
    IN  IF i1 = Len(s) + 1 /\ i1 - i0 >= 1
        THEN [ok |-> TRUE, n |-> IF Peek(s, 1) = "-" THEN -mag ELSE mag]
        ELSE [ok |-> FALSE, n |-> 0]

(***************************************************************************)
(* Program constants                                                       *)
(***************************************************************************)
\* range(min_val, min_val + 10)
SampleCount == 10

\* test_vals[:5]
DisplayCount == 5

\* int(result) <= 1000
PrimeLimit == 1000

(***************************************************************************)
(* The classifications                                                     *)
(***************************************************************************)
SetN == <<"N">>

SetNStar == <<"N", "*">>

\* membership without the integrality test
belongs_sign_only(value, set) ==
    IF set = SetN THEN value.k = "num" /\ value.n >= 0
    ELSE value.k = "num" /\ value.n > 0

\* belongs = value >= 0 and (isinstance(value, int) or value == int(value)),
\* with > for N*
belongs_to_set(value, set) ==
    IF set = SetN THEN value.k = "num" /\ value.n >= 0 /\ IsIntegral(value)
    ELSE value.k = "num" /\ value.n > 0 /\ IsIntegral(value)

\* K = int(r / 2) in both branches: a division that truncates toward zero
parity_truncating(r) ==
    LET half == IF r >= 0 THEN r \div 2 ELSE -((-r) \div 2)
    IN  [parity |-> IF r % 2 = 0 THEN "even" ELSE "odd", k |-> half]

\* value_int % 2 == 0: K = value_int // 2, else K = (value_int - 1) // 2
parity_of(r) ==
    IF r % 2 = 0 THEN [parity |-> "even", k |-> r \div 2]
    ELSE [parity |-> "odd", k |-> (r - 1) \div 2]

\* sympy's isprime
isprime(n) == n > 1 /\ \A d \in 2..IntSqrt(n) : n % d # 0

\* sorted(divisors): the least element first, then the rest sorted; an
\* element that occurs twice stays twice
RECURSIVE SortInts(_)
SortInts(list) ==
    IF list = <<>> THEN <<>>
    ELSE LET m == CHOOSE i \in 1..Len(list) : \A j \in 1..Len(list) : list[i] <= list[j]
         IN  <<list[m]>> \o SortInts(SubSeq(list, 1, m - 1) \o SubSeq(list, m + 1, Len(list)))

sorted(list) == SortInts(list)

\* the prime analysis of analyze_constant and of test_specific_values, which
\* differ in what they print for 0: zero_line is "zero" or "na"
prime_analysis(r, zero_line) ==
    IF r > 1
    THEN IF isprime(r) THEN [prime |-> "prime", divisors |-> <<1, r>>]
         ELSE [prime |-> "composite", divisors |-> sorted(get_divisors(r))]
    ELSE IF r = 1 THEN [prime |-> "neither", divisors |-> <<1>>]
    ELSE IF r = 0 THEN [prime |-> zero_line, divisors |-> <<>>]
    ELSE [prime |-> "na", divisors |-> <<>>]

\* the prime check without the upper limit and without the lower one
prime_check_unbounded(r) ==
    IF isprime(r) THEN "prime" ELSE "composite"

\* the prime check of analyze_parity: only for 1 < r <= 1000, no divisors
prime_check_sampled(r) ==
    IF r > 1 /\ r <= PrimeLimit
    THEN (IF isprime(r) THEN "prime" ELSE "composite")
    ELSE "none"

\* the first sample value, whatever the set
min_val_zero(set) == 0

\* min_val = 1 if set_choice == 'N*' else 0
min_val_of(set) == IF set = SetNStar THEN 1 ELSE 0

NoReport == [kind |-> "none"]

(***************************************************************************)
(* analyze_constant: what it prints for a constant value                   *)
(***************************************************************************)
analyze_constant(value, set) ==
    IF IsIntegral(value)
    THEN LET r  == IntTrunc(value)
             pa == parity_of(r)
             pr == prime_analysis(r, "zero")
         IN  [kind |-> "constant", value |-> value,
              belongs |-> belongs_to_set(value, set),
              parity |-> pa.parity, k |-> pa.k,
              prime |-> pr.prime, divisors |-> pr.divisors]
    ELSE [kind |-> "constant", value |-> value,
          belongs |-> belongs_to_set(value, set),
          parity |-> "non_integer", k |-> 0,
          prime |-> "na_non_integer", divisors |-> <<>>]

(***************************************************************************)
(* analyze_expression and analyze_parity: what they print for the samples  *)
(***************************************************************************)
Bind(var, value) == [var |-> var, value |-> value]

\* if set_choice == 'N' and result < 0 ... elif set_choice == 'N*' and result <= 0
sample_problem(result, set) ==
    \/ set = SetN /\ result.k = "num" /\ result.n < 0
    \/ set = SetNStar /\ result.k = "num" /\ result.n <= 0

\* (set_choice == 'N' and result >= 0) or (set_choice == 'N*' and result > 0)
sample_member(result, set) ==
    \/ set = SetN /\ result.k = "num" /\ result.n >= 0
    \/ set = SetNStar /\ result.k = "num" /\ result.n > 0

\* the sample values of one loop
sample_range(min_val) == [i \in 1..SampleCount |-> min_val + i - 1]

\* the first len(s) min n entries of s
Take(s, n) == SubSeq(s, 1, IF Len(s) < n THEN Len(s) ELSE n)

\* one line of analyze_parity; it prints no divisors
parity_line(x, result) ==
    IF result.k # "num"
    THEN [x |-> x, parity |-> "error", result |-> result, k |-> 0,
          prime |-> "none", divisors |-> <<>>]
    ELSE IF IsIntegral(result)
    THEN LET r  == IntTrunc(result)
             pa == parity_of(r)
         IN  [x |-> x, parity |-> pa.parity, result |-> result, k |-> pa.k,
              prime |-> prime_check_sampled(r), divisors |-> <<>>]
    ELSE [x |-> x, parity |-> "non_integer", result |-> result, k |-> 0,
          prime |-> "none", divisors |-> <<>>]

pattern_summary(lines) ==
    LET evens == \E i \in 1..Len(lines) : lines[i].parity = "even"
        odds  == \E i \in 1..Len(lines) : lines[i].parity = "odd"
    IN  IF evens /\ odds THEN "produces_both"
        ELSE IF evens THEN "produces_even"
        ELSE IF odds THEN "produces_odd"
        ELSE "pattern_unclear"

analyze_parity(e, var, min_val, values) ==
    LET xs    == sample_range(min_val)
        lines == [i \in 1..Len(xs) |->
                    parity_line(xs[i], subs(e, values \o <<Bind(var, IntVal(xs[i]))>>))]
    IN  [lines |-> lines, pattern |-> pattern_summary(lines)]

analyze_expression(e, set, var, values) ==
    LET min_val == min_val_of(set)
        xs      == sample_range(min_val)
        all     == [i \in 1..Len(xs) |->
                      [x |-> xs[i],
                       result |-> subs(e, values \o <<Bind(var, IntVal(xs[i]))>>)]]
        test_vals == SelectSeq(all, LAMBDA t : float_ok(t.result))
        failed    == SelectSeq(all, LAMBDA t : ~float_ok(t.result))
        problematic_vals ==
            SelectSeq(test_vals, LAMBDA t : sample_problem(t.result, set))
        shown   == Take(test_vals, DisplayCount)
        par     == analyze_parity(e, var, min_val, values)
    IN  [kind |-> "sampled",
         test_vals |-> test_vals,
         could_not_evaluate |-> [i \in 1..Len(failed) |-> failed[i].x],
         problematic_vals |-> problematic_vals,
         displayed |-> [i \in 1..Len(shown) |->
                          [x |-> shown[i].x, result |-> shown[i].result,
                           belongs |-> sample_member(shown[i].result, set)]],
         summary |-> IF problematic_vals # <<>> THEN "found_problems"
                     ELSE "appears_to_belong",
         parity |-> par.lines,
         pattern |-> par.pattern]

(***************************************************************************)
(* test_specific_values: what one pass of its loop prints for a value      *)
(***************************************************************************)
\* [outcome, report]: outcome "ok", or the handler an exception reached:
\* "error_evaluating" (except Exception) or "valid_number" (except ValueError,
\* which int(nan) raises too)
specific_value(e, set, var, values, val_value) ==
    LET result == subs(e, values \o <<Bind(var, val_value)>>)
        warning == \/ set = SetNStar /\ Less(val_value, IntVal(1))
                   \/ set = SetN /\ Less(val_value, IntVal(0))
    IN  IF ~float_ok(result) THEN [outcome |-> "error_evaluating", report |-> NoReport]
        ELSE IF result.k = "nan" THEN [outcome |-> "valid_number", report |-> NoReport]
        ELSE IF IsIntegral(result)
        THEN LET r  == IntTrunc(result)
                 pa == parity_of(r)
                 pr == prime_analysis(r, "na")
             IN  [outcome |-> "ok",
                  report |-> [kind |-> "specific", x |-> val_value,
                              warning |-> warning, value |-> result,
                              belongs |-> belongs_to_set(result, set),
                              parity |-> pa.parity, k |-> pa.k,
                              prime |-> pr.prime, divisors |-> pr.divisors]]
        ELSE [outcome |-> "ok",
              report |-> [kind |-> "specific", x |-> val_value,
                          warning |-> warning, value |-> result,
                          belongs |-> belongs_to_set(result, set),
                          parity |-> "non_integer", k |-> 0,
                          prime |-> "na_non_integer", divisors |-> <<>>]]

(***************************************************************************)
(* The pipeline at rest: the value of the pipeline's variables in the      *)
(* specifications that exercise one pure function, where pc is "call"      *)
(* before the function is applied and "returned" after.                    *)
(***************************************************************************)
PipelineIdle ==
    /\ lang = "none"
    /\ set_choice = <<>>
    /\ val_input = <<>>
    /\ msg = "none"
    /\ expr = <<>>
    /\ variables = <<>>
    /\ primary_var = <<>>
    /\ var_values = <<>>
    /\ report = NoReport
    /\ translations = "ok"
    /\ exit_status = -1
    /\ input_event = "none"

(***************************************************************************)
(* SpecDivisors: get_divisors applied to every n of -2 .. MaxDivN          *)
(***************************************************************************)
InitDivisors ==
    /\ PipelineIdle
    /\ pc = "call"
    /\ dv_n \in -2..MaxDivN
    /\ dv_out = <<>>
    /\ pre_in = <<>>
    /\ pre_out = <<>>

DivisorsCall ==
    /\ pc = "call"
    /\ pc' = "returned"
    /\ dv_out' = get_divisors(dv_n)
    /\ UNCHANGED <<idle_vars, dv_n, pre_in, pre_out>>

SpecDivisors == InitDivisors /\ [][DivisorsCall]_vars

(***************************************************************************)
(* SpecPreprocess: preprocess_expression applied to every text of at most  *)
(* MaxPreLen characters over PreAlphabet                                   *)
(***************************************************************************)
PreAlphabet == {"a", "b", "2", "sup2", "(", ")", "+"}

RECURSIVE TextsUpTo(_, _)
TextsUpTo(A, n) ==
    IF n = 0 THEN {<<>>}
    ELSE LET shorter == TextsUpTo(A, n - 1)
         IN  shorter \cup {Append(s, c) : s \in shorter, c \in A}

InitPreprocess ==
    /\ PipelineIdle
    /\ pc = "call"
    /\ dv_n = 0
    /\ dv_out = <<>>
    /\ pre_in \in TextsUpTo(PreAlphabet, MaxPreLen)
    /\ pre_out = <<>>

PreprocessCall ==
    /\ pc = "call"
    /\ pc' = "returned"
    /\ pre_out' = preprocess_expression(pre_in)
    /\ UNCHANGED <<idle_vars, dv_n, dv_out, pre_in>>

SpecPreprocess == InitPreprocess /\ [][PreprocessCall]_vars

(***************************************************************************)
(* The texts a user types at each prompt                                   *)
(***************************************************************************)
LanguageInputs == {<<"1">>, <<"2">>, <<"3">>, <<"4">>, <<>>, <<" ", "1">>, <<"a">>}

SetInputs == {<<"N">>, <<"n">>, <<"N", "*">>, <<"n", "*", " ">>, <<"Y">>, <<>>}

ExpressionInputs ==
    { <<"n", "sup2">>,                          \* n squared
      <<"2", "n", "+", "1">>,
      <<"n", "/", "2">>,
      <<"n", "-", "3">>,
      <<"1", "/", "n">>,
      <<"2", "0", "0", "n">>,
      <<"(", "n", "+", "1", ")", "sup2">>,
      <<"a", "b">>,
      <<"a", "b", "n">>,
      <<"a", "+", "b", "+", "n">>,
      <<"7">>, <<"1", "2">>, <<"1", "6">>, <<"-", "3">>, <<"-", "4">>,
      <<"0">>, <<"1">>, <<"5", "/", "2">>, <<"-", "1", "/", "2">>,
      <<"1", "/", "0">>, <<"0", "/", "0">>,
      <<"2", "+">>, <<>>, <<"2", "(", "n", ")">> }

PrimaryInputs == {<<"1">>, <<"2">>, <<"3">>, <<"0">>, <<"a">>, <<>>, <<"1", ".", "0">>}

OtherValueInputs ==
    {<<>>, <<"2">>, <<"0", ".", "5">>, <<"-", "1">>, <<"a">>,
     <<"i", "n", "f">>, <<"n", "a", "n">>}

YesNoInputs == {<<"y">>, <<"Y">>, <<"o">>, <<"ar2">>, <<"n">>, <<>>}

SpecificInputs ==
    { <<"d", "o", "n", "e">>, <<"D", "O", "N", "E">>, <<" ", "d", "o", "n", "e">>,
      <<"f", "i", "n", "i">>, <<"ar1", "ar2", "ar3", "ar4", "ar5">>,
      <<"3">>, <<"4">>, <<"0">>, <<"-", "1">>, <<"0", ".", "5">>,
      <<"a", "b">>, <<>> }

(***************************************************************************)
(* The language tables                                                     *)
(***************************************************************************)
Languages == {"en", "fr", "ar"}

\* the done word of another language
done_word_english(l) == <<"d", "o", "n", "e">>

\* done_words = {'en': 'done', 'fr': 'fini', 'ar': ...}
done_word(l) ==
    CASE l = "en" -> <<"d", "o", "n", "e">>
      [] l = "fr" -> <<"f", "i", "n", "i">>
      [] l = "ar" -> <<"ar1", "ar2", "ar3", "ar4", "ar5">>

\* yes_responses = {'en': 'y', 'fr': 'o', 'ar': ...}
yes_response(l) ==
    CASE l = "en" -> <<"y">>
      [] l = "fr" -> <<"o">>
      [] l = "ar" -> <<"ar2">>

(***************************************************************************)
(* main(): one action per input() call, each with all the code that runs   *)
(* up to the next input() call                                             *)
(***************************************************************************)
\* what load_translations may find: the file with its tables, no file
\* (FileNotFoundError), a file that is no JSON (json.JSONDecodeError), a file
\* that cannot be read (any other exception), the JSON value null, another
\* JSON value without the table 'en' (an empty object, a list, a number), a
\* JSON object with the table 'en' only
TranslationFiles ==
    {"ok", "missing", "malformed", "unreadable", "null", "no_tables", "en_only"}

\* the files whose open() or json.load() raises: an except clause of
\* load_translations takes each
load_raises(file) == file \in {"missing", "malformed", "unreadable"}

\* get_text(key, l, texts) raises: texts[l] of a value without the table l;
\* for texts = None (the file null) get_text returns the key and raises nothing
get_text_raises(file, l) ==
    CASE file = "no_tables" -> TRUE
      [] file = "en_only" -> l # "en"
      [] OTHER -> FALSE

Init ==
    /\ pc = "load_translations"
    /\ translations \in TranslationFiles
    /\ exit_status = -1
    /\ input_event = "none"
    /\ lang = "none"
    /\ set_choice = <<>>
    /\ val_input = <<>>
    /\ msg = "none"
    /\ expr = <<>>
    /\ variables = <<>>
    /\ primary_var = <<>>
    /\ var_values = <<>>
    /\ report = NoReport
    /\ dv_n = 0
    /\ dv_out = <<>>
    /\ pre_in = <<>>
    /\ pre_out = <<>>

pure_vars == <<dv_n, dv_out, pre_in, pre_out>>

\* main() returned (pc' = "done"): the script ends, exit status 0; an
\* exception reached the except Exception of __main__ (pc' = "exited"):
\* sys.exit(1)
ExitOnDone ==
    exit_status' = (CASE pc' = "done" -> 0
                      [] pc' = "exited" -> 1
                      [] OTHER -> exit_status)

\* except Exception of __main__: the message, and sys.exit(1)
unexpected_error ==
    /\ pc' = "exited"
    /\ msg' = "unexpected_error_occurred"

\* load_translations, and main up to the first prompt: each except clause of
\* load_translations prints its message and calls sys.exit(1); when the
\* first get_text of choose_language raises, before the first input(), the
\* except Exception of __main__ prints it and calls sys.exit(1); otherwise
\* the menu is printed (as its key, when texts is None) and the prompt stands
LoadTranslations ==
    /\ pc = "load_translations"
    /\ UNCHANGED input_event
    /\ IF load_raises(translations)
       THEN /\ pc' = "exited"
            /\ msg' = (CASE translations = "missing" -> "translations_not_found"
                          [] translations = "malformed" -> "error_reading_translations"
                          [] translations = "unreadable" -> "unexpected_error_loading")
            /\ exit_status' = 1
       ELSE IF get_text_raises(translations, "en")
       THEN /\ unexpected_error
            /\ exit_status' = 1
       ELSE /\ pc' = "choose_language"
            /\ msg' = "choose_language"
            /\ UNCHANGED exit_status
    /\ UNCHANGED <<lang, set_choice, val_input, expr, variables, primary_var,
                   var_values, report, pure_vars, translations>>

\* the prompts whose own handler catches KeyboardInterrupt and calls sys.exit(0)
HandlingPrompts == {"choose_language", "primary_variable", "other_values"}

\* the prompts that let KeyboardInterrupt reach the handler of __main__
PropagatingPrompts == {"choose_set", "enter_expression", "yes_no", "specific"}

\* KeyboardInterrupt left uncaught: Python prints the traceback, status 1
interrupt_uncaught(prompt) == IF prompt \in PropagatingPrompts THEN 1 ELSE 0

\* the exit status after KeyboardInterrupt at a prompt: sys.exit(0) in the
\* prompt's handler, or the end of the script after the handler of __main__
interrupt_status(prompt) == 0

\* KeyboardInterrupt at a prompt of choose_language, get_primary_variable or
\* get_other_variable_values
InterruptHandled ==
    /\ pc \in HandlingPrompts
    /\ pc' = "exited"
    /\ msg' = "interrupted"
    /\ exit_status' = interrupt_status(pc)
    /\ input_event' = "interrupt"
    /\ val_input' = <<>>
    /\ UNCHANGED <<lang, set_choice, expr, variables, primary_var,
                   var_values, report, pure_vars, translations>>

\* KeyboardInterrupt at a prompt of main or of test_specific_values: no
\* handler but the one of __main__
InterruptPropagated ==
    /\ pc \in PropagatingPrompts
    /\ pc' = "exited"
    /\ msg' = "goodbye"
    /\ exit_status' = interrupt_status(pc)
    /\ input_event' = "interrupt"
    /\ val_input' = <<>>
    /\ UNCHANGED <<lang, set_choice, expr, variables, primary_var,
                   var_values, report, pure_vars, translations>>

\* every position at which the program waits in input()
Prompts == HandlingPrompts \cup PropagatingPrompts

\* where main goes after analyze_constant, were the return missing
after_constant_falls_through == "yes_no"

\* where main goes after analyze_constant: return
after_constant == "done"

\* choose_language, and main up to the set prompt: get_text(..., lang, texts)
\* raises KeyError when texts has no table of the chosen language
ChooseLanguage ==
    /\ pc = "choose_language"
    /\ \E inp \in LanguageInputs :
         LET choice == Strip(inp) IN
         /\ val_input' = inp
         /\ input_event' = "text"
         /\ IF choice \in {<<"1">>, <<"2">>, <<"3">>}
            THEN /\ lang' = (CASE choice = <<"1">> -> "en"
                               [] choice = <<"2">> -> "fr"
                               [] choice = <<"3">> -> "ar")
                 /\ IF get_text_raises(translations, lang')
                    THEN unexpected_error
                    ELSE /\ pc' = "choose_set"
                         /\ msg' = "welcome"
            ELSE /\ msg' = "invalid_choice"
                 /\ UNCHANGED <<pc, lang>>
    /\ UNCHANGED <<set_choice, expr, variables, primary_var, var_values, report,
                   pure_vars, translations>>
    /\ ExitOnDone

\* main, step 1: the set
ChooseSet ==
    /\ pc = "choose_set"
    /\ \E inp \in SetInputs :
         /\ val_input' = inp
         /\ input_event' = "text"
         /\ set_choice' = Upper(Strip(inp))
         /\ IF set_choice' \in {SetN, SetNStar}
            THEN /\ pc' = "enter_expression"
                 /\ msg' = IF set_choice' = SetN THEN "chose_n" ELSE "chose_n_star"
            ELSE /\ msg' = "invalid_set"
                 /\ UNCHANGED pc
    /\ UNCHANGED <<lang, expr, variables, primary_var, var_values, report, pure_vars, translations>>
    /\ ExitOnDone

\* the code between the last prompt of the expression loop and the yes/no
\* prompt: analyze_expression
RunAnalysis(e, var, values) ==
    /\ report' = analyze_expression(e, set_choice, var, values)
    /\ pc' = "yes_no"
    /\ msg' = "parsed_successfully"

\* the expression loop, were it left on an exception
invalid_expression_skipped ==
    /\ msg' = "invalid_expression"
    /\ pc' = "done"

\* except Exception of the expression loop: the message, and the prompt again
invalid_expression ==
    /\ msg' = "invalid_expression"
    /\ pc' = "enter_expression"

\* main, step 2: the expression
EnterExpression ==
    /\ pc = "enter_expression"
    /\ \E inp \in ExpressionInputs :
         LET processed_input == preprocess_expression(Strip(inp)) IN
         /\ val_input' = inp
         /\ input_event' = "text"
         /\ IF ~sympify_ok(processed_input)
            THEN /\ invalid_expression
                 /\ UNCHANGED <<expr, variables, primary_var, var_values, report>>
            ELSE /\ expr' = processed_input
                 /\ variables' = find_variables(processed_input)
                 /\ IF variables' = <<>>
                    THEN LET constant_value == subs(processed_input, <<>>) IN
                         IF constant_value.k # "num"
                         THEN /\ invalid_expression
                              /\ UNCHANGED <<primary_var, var_values, report>>
                         ELSE /\ report' = analyze_constant(constant_value, set_choice)
                              /\ pc' = after_constant
                              /\ msg' = "analysis_complete"
                              /\ UNCHANGED <<primary_var, var_values>>
                    ELSE IF Len(variables') = 1
                    THEN /\ primary_var' = variables'[1]
                         /\ var_values' = <<>>
                         /\ RunAnalysis(processed_input, variables'[1], <<>>)
                    ELSE /\ pc' = "primary_variable"
                         /\ msg' = "multiple_variables"
                         /\ UNCHANGED <<primary_var, var_values, report>>
    /\ UNCHANGED <<lang, set_choice, pure_vars, translations>>
    /\ ExitOnDone

\* get_primary_variable, for several variables
ChoosePrimary ==
    /\ pc = "primary_variable"
    /\ \E inp \in PrimaryInputs :
         LET choice == python_int(inp) IN
         /\ val_input' = inp
         /\ input_event' = "text"
         /\ IF ~choice.ok
            THEN /\ msg' = "valid_number"
                 /\ UNCHANGED <<pc, primary_var, var_values>>
            ELSE IF 0 <= choice.n - 1 /\ choice.n - 1 < Len(variables)
            THEN /\ primary_var' = variables[choice.n]
                 /\ var_values' = <<>>
                 /\ pc' = "other_values"
                 /\ msg' = "need_fixed_values"
            ELSE /\ msg' = "number_between"
                 /\ UNCHANGED <<pc, primary_var, var_values>>
    /\ UNCHANGED <<lang, set_choice, expr, variables, report, pure_vars, translations>>
    /\ ExitOnDone

\* an exception leaves get_other_variable_values (or get_primary_variable):
\* the values collected so far are lost with the call's frame; main's
\* primary_var keeps the binding line 521 gave it
left_other_values ==
    /\ var_values' = <<>>
    /\ UNCHANGED primary_var

\* other_vars = [v for v in variables if v != primary_var]
other_vars == SelectSeq(variables, LAMBDA v : v # primary_var)

\* get_other_variable_values: the prompt for the next variable without a value
EnterOtherValue ==
    /\ pc = "other_values"
    /\ \E inp \in OtherValueInputs :
         LET var   == other_vars[Len(var_values) + 1]
             value == IF Strip(inp) = <<>> THEN [ok |-> TRUE, v |-> IntVal(1)]
                      ELSE python_float(inp)
         IN
         /\ val_input' = inp
         /\ input_event' = "text"
         /\ IF ~value.ok \/ value.v.k = "nan"
            THEN \* ValueError of float(), or of int(nan)
                 /\ msg' = "valid_number"
                 /\ UNCHANGED <<pc, primary_var, var_values, report>>
            ELSE IF value.v.k = "inf"
            THEN \* OverflowError of int(inf): no handler before main's
                 /\ invalid_expression
                 /\ left_other_values
                 /\ UNCHANGED report
            ELSE /\ var_values' = Append(var_values, Bind(var, value.v))
                 /\ IF Len(var_values') = Len(other_vars)
                    THEN RunAnalysis(expr, primary_var, var_values')
                    ELSE /\ msg' = "using_value"
                         /\ UNCHANGED <<pc, report>>
                 /\ UNCHANGED primary_var
    /\ UNCHANGED <<lang, set_choice, expr, variables, pure_vars, translations>>
    /\ ExitOnDone

\* main, step 4: the yes/no question
YesNo ==
    /\ pc = "yes_no"
    /\ \E inp \in YesNoInputs :
         /\ val_input' = inp
         /\ input_event' = "text"
         /\ IF Lower(Strip(inp)) = yes_response(lang)
            THEN /\ pc' = "specific"
                 /\ msg' = "specific_testing"
            ELSE /\ pc' = "done"
                 /\ msg' = "analysis_complete"
    /\ UNCHANGED <<lang, set_choice, expr, variables, primary_var, var_values,
                   report, pure_vars, translations>>
    /\ ExitOnDone

\* test_specific_values: one pass of its loop
SpecificValue ==
    /\ pc = "specific"
    /\ \E inp \in SpecificInputs :
         /\ val_input' = inp
         /\ input_event' = "text"
         /\ IF Lower(Strip(inp)) = done_word(lang)
            THEN /\ pc' = "done"
                 /\ msg' = "analysis_complete"
                 /\ UNCHANGED report
            ELSE LET val_value == python_float(inp) IN
                 /\ pc' = "specific"
                 /\ IF ~val_value.ok
                    THEN /\ msg' = "valid_number"
                         /\ UNCHANGED report
                    ELSE LET got == specific_value(expr, set_choice, primary_var,
                                                   var_values, val_value.v)
                         IN  IF got.outcome = "ok"
                             THEN /\ msg' = "result"
                                  /\ report' = got.report
                             ELSE /\ msg' = got.outcome
                                  /\ UNCHANGED report
    /\ UNCHANGED <<lang, set_choice, expr, variables, primary_var, var_values,
                   pure_vars, translations>>
    /\ ExitOnDone

\* EOFError of input(): an Exception, which the nearest except Exception
\* takes: the one of choose_language, of main's expression loop (also for the
\* prompts of get_primary_variable and get_other_variable_values, which it
\* encloses), of the loop of test_specific_values, or the one of __main__
EndOfInput ==
    /\ pc \in Prompts
    /\ input_event' = "eof"
    /\ val_input' = <<>>
    /\ CASE pc = "choose_language" ->
              /\ msg' = "invalid_choice"
              /\ UNCHANGED <<pc, primary_var, var_values>>
         [] pc \in {"choose_set", "yes_no"} ->
              /\ unexpected_error
              /\ UNCHANGED <<primary_var, var_values>>
         [] pc = "enter_expression" ->
              /\ invalid_expression
              /\ UNCHANGED <<primary_var, var_values>>
         [] pc \in {"primary_variable", "other_values"} ->
              /\ invalid_expression
              /\ left_other_values
         [] pc = "specific" ->
              /\ msg' = "error_evaluating"
              /\ UNCHANGED <<pc, primary_var, var_values>>
    /\ UNCHANGED <<lang, set_choice, expr, variables, report, pure_vars,
                   translations>>
    /\ ExitOnDone

Next ==
    \/ LoadTranslations
    \/ InterruptHandled
    \/ InterruptPropagated
    \/ EndOfInput
    \/ ChooseLanguage
    \/ ChooseSet
    \/ EnterExpression
    \/ ChoosePrimary
    \/ EnterOtherValue
    \/ YesNo
    \/ SpecificValue

Spec == Init /\ [][Next]_vars

(***************************************************************************)
(* Claims about the pure functions                                         *)
(***************************************************************************)
SeqToSet(s) == {s[i] : i \in 1..Len(s)}

NoDuplicates(s) == \A i, j \in 1..Len(s) : i # j => s[i] # s[j]

\* C1: for every n > 0, get_divisors(n) returns exactly the positive divisors
\* of n (each returned d divides n, each d of 1..n dividing n is returned) and
\* no divisor twice, the square root of a perfect square included.
C1_DivisorsExact ==
    (pc = "returned" /\ dv_n > 0) =>
        /\ SeqToSet(dv_out) = {d \in 1..dv_n : dv_n % d = 0}
        /\ NoDuplicates(dv_out)

\* C1 witness: get_divisors has returned for a perfect square with a proper
\* square root (36), its root listed.
C1_Witness ==
    /\ pc = "returned"
    /\ dv_n = 36
    /\ 6 \in SeqToSet(dv_out)

HasAdjacent(s, A, B) == \E i \in 1..(Len(s) - 1) : s[i] \in A /\ s[i + 1] \in B

\* C8: for every input, the text preprocess_expression returns holds no
\* superscript two, no digit immediately followed by a letter and no letter
\* immediately followed by a letter (runs of three or more letters included).
C8_AllImplicitExplicit ==
    pc = "returned" =>
        /\ "sup2" \notin SeqToSet(pre_out)
        /\ ~HasAdjacent(pre_out, Digits, Letters)
        /\ ~HasAdjacent(pre_out, Letters, Letters)

(***************************************************************************)
(* Claims about the pipeline                                               *)
(***************************************************************************)
\* the results with a reported parity: [r, parity, k] of the last report
ReportedParities ==
    IF report.kind \in {"constant", "specific"}
    THEN IF report.parity \in {"even", "odd"}
         THEN {[r |-> report.value, parity |-> report.parity, k |-> report.k]}
         ELSE {}
    ELSE IF report.kind = "sampled"
    THEN {[r |-> report.parity[i].result, parity |-> report.parity[i].parity,
           k |-> report.parity[i].k] :
              i \in {j \in 1..Len(report.parity) :
                        report.parity[j].parity \in {"even", "odd"}}}
    ELSE {}

\* C2: every integer result r (positive, zero or negative) reported by the
\* constant analysis, the sampled parity analysis or the specific-value test
\* has r = 2*K when reported even and r = 2*K+1 when reported odd, and is
\* reported even iff r mod 2 = 0.
C2_ParityDecomposition ==
    \A p \in ReportedParities :
        /\ p.r.k = "num" /\ p.r.d = 1
        /\ (p.parity = "even") <=> (p.r.n % 2 = 0)
        /\ p.parity = "even" => p.r.n = 2 * p.k
        /\ p.parity = "odd" => p.r.n = 2 * p.k + 1

\* C2 witness: the sampled parity analysis has reported a negative odd result.
C2_Witness ==
    /\ report.kind = "sampled"
    /\ \E p \in ReportedParities : p.parity = "odd" /\ p.r.n < 0

\* C3: in the constant analysis and in the specific-value test a result is
\* reported as a member of N iff it is integral and >= 0, and of N* iff it is
\* integral and > 0; so 0 is in N and not in N*, and a non-integral positive
\* value is in neither.
C3_Membership ==
    report.kind \in {"constant", "specific"} =>
        /\ report.value.k = "num"
        /\ report.belongs <=>
              /\ report.value.d = 1
              /\ IF set_choice = <<"N">> THEN report.value.n >= 0
                 ELSE report.value.n > 0

\* C3 witness: the constant analysis has reported 0 as no member of N*.
C3_Witness ==
    /\ report.kind = "constant"
    /\ set_choice = <<"N", "*">>
    /\ report.value = IntVal(0)
    /\ ~report.belongs

\* membership of the chosen set, as the claims state it
IsMember(v) ==
    /\ v.k = "num"
    /\ v.d = 1
    /\ IF set_choice = <<"N">> THEN v.n >= 0 ELSE v.n > 0

\* C4: in the sampled analysis a sample point is marked as member, and not
\* listed as problematic, iff its result is integral and >= 0 (N) or integral
\* and > 0 (N*); "appears to belong" is reported only when every sampled
\* result is such a member.
C4_SampledMembership ==
    report.kind = "sampled" =>
        /\ \A i \in 1..Len(report.displayed) :
              report.displayed[i].belongs <=> IsMember(report.displayed[i].result)
        /\ \A i \in 1..Len(report.test_vals) :
              (\E j \in 1..Len(report.problematic_vals) :
                   report.problematic_vals[j] = report.test_vals[i])
                 <=> ~IsMember(report.test_vals[i].result)
        /\ report.summary = "appears_to_belong" =>
              \A i \in 1..Len(report.test_vals) : IsMember(report.test_vals[i].result)

\* the first sample value of the chosen set, as the claims state it
MinOfSet == IF set_choice = <<"N", "*">> THEN 1 ELSE 0

\* the sample values at which the membership loop tried the expression
MembershipTried ==
    {report.test_vals[i].x : i \in 1..Len(report.test_vals)}
        \cup {report.could_not_evaluate[i] : i \in 1..Len(report.could_not_evaluate)}

\* the sample values the membership section prints something about
MembershipReported ==
    {report.displayed[i].x : i \in 1..Len(report.displayed)}
        \cup {report.problematic_vals[i].x : i \in 1..Len(report.problematic_vals)}
        \cup {report.could_not_evaluate[i] : i \in 1..Len(report.could_not_evaluate)}

\* C5 as stated: both samplings run over exactly min .. min+9 (min = 0 for N,
\* 1 for N*), nothing below min, and all 10 points are evaluated and reported.
C5_AllTenReported ==
    report.kind = "sampled" =>
        /\ MembershipTried = MinOfSet..(MinOfSet + 9)
        /\ MembershipReported = MinOfSet..(MinOfSet + 9)
        /\ Len(report.parity) = 10
        /\ \A i \in 1..Len(report.parity) : report.parity[i].x = MinOfSet + i - 1

\* C5 as amended: both samplings try the expression at exactly the 10 values
\* min .. min+9 and at nothing below min; the parity sampling prints a line
\* for each of the 10, the membership sampling prints the first 5 points that
\* evaluated, every problematic point and a message for each point that did
\* not evaluate.
C5_TenSampledFiveShown ==
    report.kind = "sampled" =>
        /\ MembershipTried = MinOfSet..(MinOfSet + 9)
        /\ Len(report.test_vals) + Len(report.could_not_evaluate) = 10
        /\ Len(report.parity) = 10
        /\ \A i \in 1..Len(report.parity) : report.parity[i].x = MinOfSet + i - 1
        /\ Len(report.displayed) =
              (IF Len(report.test_vals) < 5 THEN Len(report.test_vals) ELSE 5)
        /\ \A i \in 1..Len(report.displayed) :
              /\ report.displayed[i].x = report.test_vals[i].x
              /\ report.displayed[i].result = report.test_vals[i].result
        /\ \A i \in 1..Len(report.problematic_vals) :
              \E j \in 1..Len(report.test_vals) :
                  report.test_vals[j] = report.problematic_vals[i]

\* C5 witness: a sampling for N* that starts at 1, prints 10 parity lines and
\* shows 5 membership lines.
C5_Witness ==
    /\ report.kind = "sampled"
    /\ set_choice = <<"N", "*">>
    /\ report.parity[1].x = 1
    /\ Len(report.parity) = 10
    /\ Len(report.test_vals) = 10
    /\ Len(report.displayed) = 5

DivisorSet(r) == {d \in 1..r : r % d = 0}

\* the integer results of the sampled parity lines that are <= 1000
SampledSmall ==
    {i \in 1..Len(report.parity) :
        /\ report.parity[i].parity \in {"even", "odd"}
        /\ report.parity[i].result.n <= 1000}

SampledPrimeLabels ==
    \A i \in SampledSmall :
        LET r == report.parity[i].result.n IN
        /\ report.parity[i].prime = "prime" <=> (r > 1 /\ DivisorSet(r) = {1, r})
        /\ report.parity[i].prime = "composite" <=> (r > 1 /\ DivisorSet(r) # {1, r})

\* C6 as stated: for every sampled integer result r <= 1000 the sampled
\* analysis reports prime iff r > 1 with exactly the divisors 1 and r,
\* composite iff r > 1 with another divisor, and lists the divisors.
C6_SampledDivisorsListed ==
    report.kind = "sampled" =>
        /\ SampledPrimeLabels
        /\ \A i \in SampledSmall :
              report.parity[i].result.n > 1 =>
                  SeqToSet(report.parity[i].divisors)
                      = DivisorSet(report.parity[i].result.n)

\* C6 as amended: for every sampled integer result r <= 1000 the sampled
\* analysis reports prime iff r > 1 with exactly the divisors 1 and r and
\* composite iff r > 1 with another divisor, and lists no divisors; the
\* divisors are listed by the constant analysis and the specific-value test
\* only, for every integer result r > 1: 1 and r for a prime, all of them in
\* ascending order for a composite.
C6_PrimeLabelsDivisorsElsewhere ==
    /\ report.kind = "sampled" =>
          /\ SampledPrimeLabels
          /\ \A i \in 1..Len(report.parity) : report.parity[i].divisors = <<>>
    /\ (report.kind \in {"constant", "specific"} /\ report.parity \in {"even", "odd"}
           /\ report.value.n > 1) =>
          LET r == report.value.n IN
          /\ report.prime = "prime" <=> DivisorSet(r) = {1, r}
          /\ report.prime = "composite" <=> DivisorSet(r) # {1, r}
          /\ SeqToSet(report.divisors) = DivisorSet(r)
          /\ \A i \in 1..(Len(report.divisors) - 1) :
                report.divisors[i] < report.divisors[i + 1]

\* C6 witness: a sampled analysis with a prime and a composite result, no
\* divisors on either line.
C6_Witness ==
    /\ report.kind = "sampled"
    /\ \E i, j \in 1..Len(report.parity) :
          /\ report.parity[i].prime = "prime"
          /\ report.parity[j].prime = "composite"
          /\ report.parity[j].divisors = <<>>

\* what the claim C7 lists: the squares of 0 .. 9 with their parity and K
SquaresExpected ==
    [i \in 1..10 |->
        [x |-> i - 1, r |-> (i - 1) * (i - 1),
         parity |-> IF i % 2 = 1 THEN "even" ELSE "odd",
         k |-> <<0, 0, 2, 4, 8, 12, 18, 24, 32, 40>>[i]]]

\* C7: for the input n-squared (superscript two) with set N the parity
\* sampling over n = 0 .. 9 yields 0, 1, 4, 9, ..., 81 in that order, each
\* with its parity and K = r/2 (even) or (r-1)/2 (odd).
C7_SquaresExample ==
    (pc = "yes_no" /\ val_input = <<"n", "sup2">> /\ set_choice = <<"N">>) =>
        /\ report.kind = "sampled"
        /\ Len(report.parity) = 10
        /\ \A i \in 1..10 :
              /\ report.parity[i].x = SquaresExpected[i].x
              /\ report.parity[i].result = IntVal(SquaresExpected[i].r)
              /\ report.parity[i].parity = SquaresExpected[i].parity
              /\ report.parity[i].k = SquaresExpected[i].k

\* C7 witness: the analysis of n-squared for N has run and its last line is 81.
C7_Witness ==
    /\ pc = "yes_no"
    /\ val_input = <<"n", "sup2">>
    /\ set_choice = <<"N">>
    /\ report.kind = "sampled"
    /\ report.parity[10].result = IntVal(81)

\* the step read a token: input() returned a text
TokenEntered == input_event' = "text"

\* the done words, as the claim C9 lists them
DoneWordOf(l) ==
    CASE l = "en" -> <<"d", "o", "n", "e">>
      [] l = "fr" -> <<"f", "i", "n", "i">>
      [] l = "ar" -> <<"ar1", "ar2", "ar3", "ar4", "ar5">>

\* C9 as stated: the specific-value loop ends only when the entered token
\* equals the done word of the selected language; any other input is followed
\* by another prompt.
C9_EndsOnlyOnDoneWord ==
    [][(pc = "specific" /\ TokenEntered) =>
          /\ pc' \in {"specific", "done"}
          /\ pc' = "done" <=> Strip(val_input') = DoneWordOf(lang)]_vars

\* C9 as amended: the loop ends only when the entered token, lower-cased (and
\* stripped of surrounding blanks), equals the done word of the selected
\* language; every other input (a number, a value outside the set, a
\* non-numeric text, the done word of another language) is followed by
\* another prompt.
C9_EndsOnlyOnDoneWordAnyCase ==
    [][(pc = "specific" /\ TokenEntered) =>
          /\ pc' \in {"specific", "done"}
          /\ pc' = "done" <=> Lower(Strip(val_input')) = DoneWordOf(lang)
          /\ \A l \in Languages \ {lang} :
                Lower(Strip(val_input')) = DoneWordOf(l) => pc' = "specific"
          /\ lang' = lang]_vars

\* C9 witness: in a French session the English done word was entered and the
\* loop prompts again.
C9_Witness ==
    /\ pc = "specific"
    /\ lang = "fr"
    /\ val_input = <<"d", "o", "n", "e">>
    /\ msg = "valid_number"

\* an entry that is no number: not empty, and float() raises ValueError (so
\* does int()); inf and nan are floats to Python
NonNumeric(text) == Strip(text) # <<>> /\ ~python_float(text).ok

\* an expression text that sympify rejects, or a constant that float() or
\* int() rejects
FailsToParseOrEvaluate(text) ==
    LET processed == preprocess_expression(Strip(text)) IN
    \/ ~sympify_ok(processed)
    \/ free_symbols(processed) = {} /\ subs(processed, <<>>).k # "num"

\* C10: an expression that fails to parse or evaluate in the expression loop,
\* and a non-numeric entry at the primary-variable choice, at the
\* other-variable prompt or at the specific-value prompt (the done word
\* apart), is caught: a message is printed and the same prompt is issued
\* again, the language and the set unchanged, the program not ended.
C10_InvalidInputRepeatsPrompt ==
    [][TokenEntered =>
       /\ (pc = "enter_expression" /\ FailsToParseOrEvaluate(val_input')) =>
            /\ pc' = "enter_expression" /\ msg' = "invalid_expression"
            /\ lang' = lang /\ set_choice' = set_choice
       /\ (pc \in {"primary_variable", "other_values"} /\ NonNumeric(val_input')) =>
            /\ pc' = pc /\ msg' = "valid_number"
            /\ lang' = lang /\ set_choice' = set_choice
            /\ primary_var' = primary_var /\ var_values' = var_values
       /\ (pc = "specific" /\ NonNumeric(val_input')
              /\ Lower(Strip(val_input')) # DoneWordOf(lang)) =>
            /\ pc' = pc /\ msg' = "valid_number"
            /\ lang' = lang /\ set_choice' = set_choice]_vars

\* C10 witness: in a French session for N* the text "2+" was rejected and the
\* expression prompt stands again.
C10_Witness ==
    /\ pc = "enter_expression"
    /\ msg = "invalid_expression"
    /\ val_input = <<"2", "+">>
    /\ lang = "fr"
    /\ set_choice = <<"N", "*">>

(***************************************************************************)
(* C11: interruption and the translation file                              *)
(***************************************************************************)
\* the step is a KeyboardInterrupt
Interrupted == input_event' = "interrupt"

\* no prompt was issued: nothing was entered and no language was chosen
NoPromptIssued ==
    /\ input_event = "none"
    /\ val_input = <<>>
    /\ lang = "none"
    /\ set_choice = <<>>
    /\ report = NoReport

\* the process ended with status 1 and a message before any prompt
ExitedOneBeforeAnyPrompt ==
    /\ pc = "exited"
    /\ exit_status = 1
    /\ msg \in {"translations_not_found", "error_reading_translations",
                "unexpected_error_loading", "unexpected_error_occurred"}
    /\ NoPromptIssued

\* a KeyboardInterrupt can arrive at each of the seven prompts; it ends the
\* process with exit status 0 after a message, never with status 1, and
\* nothing of the pipeline runs afterwards
InterruptExitsZero ==
    /\ [](pc \in Prompts =>
            /\ exit_status = -1
            /\ ENABLED (InterruptHandled \/ InterruptPropagated))
    /\ [][Interrupted =>
            /\ pc \in Prompts
            /\ pc' = "exited"
            /\ msg' \in {"interrupted", "goodbye"}
            /\ exit_status' = 0
            /\ report' = report /\ expr' = expr /\ primary_var' = primary_var
            /\ var_values' = var_values]_vars
    /\ [][pc # "exited"]_vars
    /\ [](exit_status = 1 => input_event # "interrupt")

\* the translation file is missing or is not the three language tables: no
\* JSON, unreadable, null, a value without tables, the table 'en' alone
MissingOrMalformed == translations # "ok"

\* the files that end the process before choose_language prompts: those
\* load_translations rejects, and those whose first get_text raises
LoadFails == load_raises(translations) \/ get_text_raises(translations, "en")

ParsedConstant(inp) ==
    LET p == preprocess_expression(Strip(inp)) IN
    sympify_ok(p) /\ free_symbols(p) = {}

\* the entry parses to an expression without free symbols whose value is a
\* finite number
ParsedNumber(inp) ==
    ParsedConstant(inp)
    /\ subs(preprocess_expression(Strip(inp)), <<>>).k = "num"

\* the run ends with the constant's analysis: the step chooses no primary
\* variable (primary_var keeps what an abandoned earlier expression may have
\* left in it), no sampling, no specific-value test
ConstantFinishes ==
    /\ pc' = "done"
    /\ msg' = "analysis_complete"
    /\ report'.kind = "constant"
    /\ variables' = <<>>
    /\ primary_var' = primary_var
    /\ var_values' = <<>>

\* a constant's report belongs to a finished run: no variable to choose from
ConstantReportIsFinal ==
    report.kind = "constant" =>
        /\ pc = "done"
        /\ exit_status = 0
        /\ variables = <<>>
        /\ var_values = <<>>

\* sampling or the specific-value test was reached
SamplingReached ==
    \/ pc \in {"yes_no", "specific"}
    \/ report.kind \in {"sampled", "specific"}

\* sampling and the specific-value test come after an expression with a
\* variable has parsed and a primary variable of it was selected
SamplingAfterPrimary ==
    SamplingReached =>
        /\ sympify_ok(expr)
        /\ variables # <<>>
        /\ SeqToSet(variables) = free_symbols(expr)
        /\ primary_var \in SeqToSet(variables)
        /\ Len(var_values) = Len(variables) - 1

\* C12 as stated: every entry that parses to an expression without free
\* variables is analyzed as a constant and ends the run; sampling and the
\* specific-value test are reached only with a parsed expression that has a
\* variable and a primary variable selected from its variables.
C12_EveryConstantFinishes ==
    /\ [][(pc = "enter_expression" /\ TokenEntered
             /\ ParsedConstant(val_input')) => ConstantFinishes]_vars
    /\ [][pc # "done"]_vars
    /\ [](ConstantReportIsFinal /\ SamplingAfterPrimary)

\* C12, amended: an entry that parses to an expression without free variables
\* and evaluates to a finite number is analyzed once as a constant and ends
\* the run, with no primary variable, no sampling and no specific-value test
\* (a constant without a finite value, 1/0 or 0/0, is reported as an invalid
\* expression and the prompt is issued again); sampling and the
\* specific-value test are reached only with a parsed expression that has a
\* variable and a primary variable selected from its variables.
C12_NumericConstantFinishes ==
    /\ [][(pc = "enter_expression" /\ TokenEntered
             /\ ParsedNumber(val_input')) => ConstantFinishes]_vars
    /\ [][pc # "done"]_vars
    /\ [](ConstantReportIsFinal /\ SamplingAfterPrimary)

\* C12 witness: the entry 7 was analyzed as a constant and the run is over,
\* no primary variable chosen, the process ended with status 0.
C12_Witness ==
    /\ pc = "done"
    /\ val_input = <<"7">>
    /\ report.kind = "constant"
    /\ primary_var = <<>>
    /\ exit_status = 0

=============================================================================
